---- MODULE Spec2Model ----
(***************************************************************************)
(* Model of the two pipelines of the Desbravando Rust blog automation:     *)
(*   scripts/blog_agent.py   topic & draft generator (opens a pull request)*)
(*   scripts/pr_reviewer.py  draft reviewer (comments on a pull request)   *)
(* Text is modelled by TLA+ strings and is computed character by character *)
(* the way the Python code computes it (padding, prefixes, regex strips).  *)
(* Three specifications share the module:                                  *)
(*   SpecNum  get_next_number applied to arbitrary lists of posts          *)
(*   SpecGen  two generator invocations against one repository             *)
(*   SpecRev  one reviewer invocation                                      *)
(***************************************************************************)
EXTENDS Integers, Sequences, FiniteSets, TLC

VARIABLES
    \* ---- get_next_number on its own (SpecNum)
    numPosts,      \* the argument: a list of post metadata
    numResult,     \* the returned number, 0 while not yet called
    \* ---- hosting state seen by the generator (SpecGen)
    commits,       \* main branch history: commits[sha] is the listing of posts/
    branches,      \* the branches created: name, listing of posts/ on the branch
    files,         \* files created through create_file
    pulls,         \* pull requests opened through create_pull
    merges,        \* number of pull requests merged so far
    \* ---- generator invocations (SpecGen), one entry per run
    pc, items, posts, topicResp, topic, content, number, today, baseSha,
    calls, inferCalls, err,
    \* ---- reviewer invocation (SpecRev)
    envMax,        \* os.environ.get("CONTENT_MAX_TOKENS")
    maxTokens,     \* CONTENT_MAX_TOKENS
    prFiles,       \* pr.get_files(): changed file names, in order
    rpc, rpath, rcontent, rprompt, rreview, rcomments, rinfer, rfetches, rerr

numVars == <<numPosts, numResult>>
hostVars == <<commits, branches, files, pulls, merges>>
runVars == <<pc, items, posts, topicResp, topic, content, number, today, baseSha,
             calls, inferCalls, err>>
revVars == <<envMax, maxTokens, prFiles, rpc, rpath, rcontent, rprompt, rreview,
             rcomments, rinfer, rfetches, rerr>>
vars == <<numVars, hostVars, runVars, revVars>>

----------------------------------------------------------------------------
\* Bounds of the model.
MaxPosts == 3      \* longest list handed to get_next_number in SpecNum
MaxMerges == 1     \* pull requests merged during the two generator runs
MaxFiles == 3      \* longest changed-file list of the reviewed pull request

\* Program constants.
POSTS_DIR == "posts"
MAIN_BRANCH == "main"
POST_FILENAME == "README.md"
DefaultMaxTokens == 8192
SliceLimit == 12000

----------------------------------------------------------------------------
\* Strings.

Min(a, b) == IF a < b THEN a ELSE b

StartsWith(s, p) == Len(s) >= Len(p) /\ SubSeq(s, 1, Len(p)) = p

EndsWith(s, p) == Len(s) >= Len(p) /\ SubSeq(s, Len(s) - Len(p) + 1, Len(s)) = p

Drop(s, n) == SubSeq(s, n + 1, Len(s))

DropLast(s, n) == SubSeq(s, 1, Len(s) - n)

IsSpace(c) == c \in {" ", "\n", "\t", "\r"}

RECURSIVE LStrip(_)
LStrip(s) == IF Len(s) > 0 /\ IsSpace(Head(s)) THEN LStrip(Tail(s)) ELSE s

RECURSIVE RStrip(_)
RStrip(s) ==
    IF Len(s) > 0 /\ IsSpace(SubSeq(s, Len(s), Len(s))) THEN RStrip(DropLast(s, 1)) ELSE s

\* str.strip()
Strip(s) == RStrip(LStrip(s))

Digits == "0123456789"

IsDigit(c) == \E i \in 1..Len(Digits) : SubSeq(Digits, i, i) = c

AllDigits(s) == s # "" /\ \A i \in 1..Len(s) : IsDigit(SubSeq(s, i, i))

DigitVal(c) == (CHOOSE i \in 1..Len(Digits) : SubSeq(Digits, i, i) = c) - 1

\* The characters directory names are made of, in code-point order.
Alphabet == "-./0123456789abcdefghijklmnopqrstuvwxyz"

Ord(c) == CHOOSE i \in 1..Len(Alphabet) : SubSeq(Alphabet, i, i) = c

\* a < b for Python strings (code-point lexicographic order)
RECURSIVE StrLess(_, _)
StrLess(a, b) ==
    IF Len(b) = 0 THEN FALSE
    ELSE IF Len(a) = 0 THEN TRUE
    ELSE IF Head(a) = Head(b) THEN StrLess(Tail(a), Tail(b))
    ELSE Ord(Head(a)) < Ord(Head(b))

\* re.match(r"^(\d+)", s).group(1), "" when there is no match
RECURSIVE LeadingDigits(_)
LeadingDigits(s) ==
    IF Len(s) > 0 /\ IsDigit(Head(s)) THEN Head(s) \o LeadingDigits(Tail(s)) ELSE ""

\* int(d) for a non-empty string of decimal digits
RECURSIVE DecimalValue(_, _)
DecimalValue(d, acc) ==
    IF Len(d) = 0 THEN acc ELSE DecimalValue(Tail(d), acc * 10 + DigitVal(Head(d)))

\* f"{n:04d}"
Pad4(n) ==
    LET d == ToString(n)
    IN  IF Len(d) >= 4 THEN d ELSE SubSeq("0000", 1, 4 - Len(d)) \o d

----------------------------------------------------------------------------
\* blog_agent.py: pure helpers.

\* get_next_number's loop: the list numbers
RECURSIVE LeadingNumbers(_)
LeadingNumbers(ps) ==
    IF Len(ps) = 0 THEN <<>>
    ELSE LET d == LeadingDigits(Head(ps).dirname)
         IN  (IF d # "" THEN <<DecimalValue(d, 0)>> ELSE <<>>) \o LeadingNumbers(Tail(ps))

\* max(numbers, default=0)
RECURSIVE MaxOf(_, _)
MaxOf(ns, default) ==
    IF Len(ns) = 0 THEN default
    ELSE LET m == MaxOf(Tail(ns), Head(ns))
         IN  IF Head(ns) > m THEN Head(ns) ELSE m

\* a variant that trusts the list to be sorted and reads its last number only
get_next_number_LastEntry(ps) ==
    LET ns == LeadingNumbers(ps) IN (IF Len(ns) = 0 THEN 0 ELSE ns[Len(ns)]) + 1

get_next_number(ps) == MaxOf(LeadingNumbers(ps), 0) + 1

----------------------------------------------------------------------------
\* SpecNum: get_next_number applied to any list of posts.

DirNamePool == {"0001-intro", "0003-traits", "0010-macros", "12", "drafts", "x9-notes"}

PostOf(d) == [dirname |-> d, title |-> d]

PostLists == UNION {[1..n -> {PostOf(d) : d \in DirNamePool}] : n \in 0..MaxPosts}

GenIdle ==
    /\ commits = <<>> /\ branches = <<>> /\ files = {} /\ pulls = <<>> /\ merges = 0
    /\ pc = <<>> /\ items = <<>> /\ posts = <<>> /\ topicResp = <<>> /\ topic = <<>>
    /\ content = <<>> /\ number = <<>> /\ today = <<>> /\ baseSha = <<>>
    /\ calls = <<>> /\ inferCalls = <<>> /\ err = <<>>

RevIdle ==
    /\ envMax = <<>> /\ maxTokens = 0 /\ prFiles = <<>> /\ rpc = "idle" /\ rpath = ""
    /\ rcontent = 0 /\ rprompt = 0 /\ rreview = "" /\ rcomments = <<>> /\ rinfer = 0
    /\ rfetches = <<>> /\ rerr = ""

NumIdle == numPosts = <<>> /\ numResult = 0

InitNum ==
    /\ numPosts \in PostLists
    /\ numResult = 0
    /\ GenIdle
    /\ RevIdle

CallGetNextNumber ==
    /\ numResult = 0
    /\ numResult' = get_next_number(numPosts)
    /\ UNCHANGED <<numPosts, hostVars, runVars, revVars>>

NextNum == CallGetNextNumber

SpecNum == InitNum /\ [][NextNum]_vars

----------------------------------------------------------------------------
\* The repository as the generator sees it.

Runs == {"r1", "r2"}

Slugs == {"intro", "loops"}

Dates == {"20261103", "20261104"}

NoErr == [type |-> "none", at |-> "", cause |-> ""]

GithubError(at, cause) == [type |-> "GithubException", at |-> at, cause |-> cause]

Dir(name, readme, title) == [name |-> name, type |-> "dir", readme |-> readme, title |-> title]

Blob(name) == [name |-> name, type |-> "file", readme |-> FALSE, title |-> ""]

Listing(root, its) == [root |-> root, items |-> its]

\* Contents of posts/ on the main branch when the runs start.
InitListings ==
    { Listing(FALSE, {}),
      Listing(TRUE, {}),
      Listing(TRUE, {Dir("0001-intro", TRUE, "Intro")}),
      Listing(TRUE, {Dir("0002-enums", TRUE, ""), Dir("0001-intro", TRUE, "Intro"),
                     Blob("index.md")}),
      Listing(TRUE, {Dir("0001-intro", TRUE, "Intro"), Dir("0003-drafts", FALSE, "")}),
      Listing(TRUE, {Dir("assets", FALSE, ""), Dir("0009-traits", TRUE, "Traits")}) }

MainSha == Len(commits)

MainListing == commits[MainSha]

\* sorted(items, key=lambda x: x.name)
RECURSIVE SortedByName(_)
SortedByName(its) ==
    IF its = {} THEN <<>>
    ELSE LET first == CHOOSE x \in its : \A y \in its \ {x} : ~StrLess(y.name, x.name)
         IN  <<first>> \o SortedByName(its \ {first})

\* get_existing_posts' loop over the sorted items
RECURSIVE CollectPosts(_)
CollectPosts(its) ==
    IF Len(its) = 0 THEN <<>>
    ELSE LET it == Head(its)
         IN  (IF it.type = "dir" /\ it.readme
              THEN <<[dirname |-> it.name,
                      title |-> IF it.title = "" THEN it.name ELSE it.title]>>
              ELSE <<>>) \o CollectPosts(Tail(its))

get_existing_posts(listing) ==
    IF ~listing.root THEN <<>> ELSE CollectPosts(SortedByName(listing.items))

\* a variant without the zero padding
DirName_NoPad(n, slug) == ToString(n) \o "-" \o slug

\* f"{post_number:04d}-{topic['slug']}"
DirName(n, slug) == Pad4(n) \o "-" \o slug

\* f"{POSTS_DIR}/{dirname}/{POST_FILENAME}"
FilePath(dirname) == POSTS_DIR \o "/" \o dirname \o "/" \o POST_FILENAME

\* a variant that names the branch after the date alone
BranchName_DateOnly(date, slug) == "agent/post-" \o date

\* f"agent/post-{datetime.now().strftime('%Y%m%d')}-{topic['slug']}"
BranchName(date, slug) == "agent/post-" \o date \o "-" \o slug

RefName(branch) == "refs/heads/" \o branch

PathExists(listing, dirname) ==
    \E it \in listing.items : it.name = dirname /\ it.type = "dir" /\ it.readme

\* The listing after README.md is added under posts/<dirname>/
WithPost(listing, dirname, title) ==
    Listing(TRUE, {it \in listing.items : it.name # dirname} \cup {Dir(dirname, TRUE, title)})

BranchNames == {b.name : b \in branches}

BranchOf(name) == CHOOSE b \in branches : b.name = name

----------------------------------------------------------------------------
\* Topic selection: the model's reply and its decoding.

TopicOf(slug) ==
    [title |-> "Post " \o slug, slug |-> slug, description |-> "About " \o slug,
     tags |-> <<"rust", slug>>]

NoTopic == [title |-> "", slug |-> "", description |-> "", tags |-> <<>>]

JsonText(slug) ==
    "{\"title\": \"Post " \o slug \o "\", \"slug\": \"" \o slug
        \o "\", \"description\": \"About " \o slug \o "\", \"tags\": [\"rust\", \""
        \o slug \o "\"]}"

\* The JSON documents among the replies, with the value json.loads gives for each.
JsonDocs == {[text |-> JsonText(s), value |-> TopicOf(s), dict |-> TRUE] : s \in Slugs}
              \cup {[text |-> "42", value |-> 42, dict |-> FALSE]}

IsJson(s) == \E d \in JsonDocs : d.text = Strip(s)

\* json.loads(s): surrounding whitespace is accepted
json_loads(s) == CHOOSE d \in JsonDocs : d.text = Strip(s)

\* The code-fence marker: three backquotes in the program. A TLA+ string cannot hold
\* a backquote, so the apostrophe stands for it throughout the model.
Fence == "'''"

\* re.sub(r"^<fence>(?:json)?\n?", "", raw)
StripOpenFence(raw) ==
    IF ~StartsWith(raw, Fence) THEN raw
    ELSE LET a == Drop(raw, 3)
             b == IF StartsWith(a, "json") THEN Drop(a, 4) ELSE a
         IN  IF StartsWith(b, "\n") THEN Drop(b, 1) ELSE b

\* re.sub(r"\n?<fence>$", "", raw); $ also matches before a final newline
StripCloseFence(raw) ==
    LET nl == EndsWith(raw, Fence \o "\n")
        s == IF nl THEN DropLast(raw, 1) ELSE raw
        tail == IF nl THEN "\n" ELSE ""
    IN  IF ~EndsWith(s, Fence) THEN raw
        ELSE LET a == DropLast(s, 3)
             IN  (IF EndsWith(a, "\n") THEN DropLast(a, 1) ELSE a) \o tail

\* choose_next_topic, from the reply to the argument of json.loads
CleanTopic(resp) == StripCloseFence(StripOpenFence(Strip(resp)))

\* a variant that asks the model again
OnDecodeFailure_Retry == "topic"

\* json.loads raises and nothing in choose_next_topic or main catches it: the
\* process ends there
OnDecodeFailure == "failed"

TopicResponses ==
    { JsonText("intro"),
      Fence \o "json\n" \o JsonText("intro") \o "\n" \o Fence,
      Fence \o "\n" \o JsonText("loops") \o Fence,
      " \n" \o JsonText("loops") \o "\n",
      Fence \o "json\n" \o JsonText("loops"),
      "Here is the topic:\n" \o Fence \o "json\n" \o JsonText("intro") \o "\n" \o Fence,
      "Sorry, I cannot suggest a topic.",
      Fence \o "json\n" \o Fence,
      "42" }

ContentResponses == {"---\ntitle: \"Post\"\ndraft: false\n---\n\nBody\n", "  Body only"}

----------------------------------------------------------------------------
\* SpecGen: two generator invocations against one repository.

NoCall == [op |-> "", ref |-> "", sha |-> 0, path |-> "", branch |-> "", content |-> "",
           base |-> "", head |-> ""]

InitGen ==
    /\ \E l \in InitListings : commits = <<l>>
    /\ branches = {} /\ files = {} /\ pulls = <<>> /\ merges = 0
    /\ pc = [r \in Runs |-> "start"]
    /\ items = [r \in Runs |-> Listing(FALSE, {})]
    /\ posts = [r \in Runs |-> <<>>]
    /\ topicResp = [r \in Runs |-> ""]
    /\ topic = [r \in Runs |-> NoTopic]
    /\ content = [r \in Runs |-> ""]
    /\ number = [r \in Runs |-> 0]
    /\ today = [r \in Runs |-> ""]
    /\ baseSha = [r \in Runs |-> 0]
    /\ calls = [r \in Runs |-> <<>>]
    /\ inferCalls = [r \in Runs |-> 0]
    /\ err = [r \in Runs |-> NoErr]
    /\ NumIdle
    /\ RevIdle

\* client.chat_completion raises: nothing catches it and the run ends there.
InferenceFails(r) ==
    /\ err' = [err EXCEPT ![r] = [type |-> "InferenceError", at |-> "chat_completion", cause |-> "api"]]
    /\ pc' = [pc EXCEPT ![r] = "failed"]

\* main, step 1: posts = get_existing_posts(repo)
GetExistingPosts(r) ==
    /\ pc[r] = "start"
    /\ items' = [items EXCEPT ![r] = MainListing]
    /\ posts' = [posts EXCEPT ![r] = get_existing_posts(MainListing)]
    /\ pc' = [pc EXCEPT ![r] = "topic"]
    /\ UNCHANGED <<topicResp, topic, content, number, today, baseSha, calls, inferCalls,
                   err, hostVars, numVars, revVars>>

\* main, step 2: topic = choose_next_topic(posts, client); print(topic['title'])
ChooseNextTopic(r) ==
    /\ pc[r] = "topic"
    /\ inferCalls' = [inferCalls EXCEPT ![r] = @ + 1]
    /\ \/ InferenceFails(r) /\ UNCHANGED <<topicResp, topic>>
       \/ \E resp \in TopicResponses :
        LET raw == CleanTopic(resp)
        IN  /\ topicResp' = [topicResp EXCEPT ![r] = resp]
            /\ IF ~IsJson(raw)
               THEN /\ err' = [err EXCEPT ![r] =
                                  [type |-> "JSONDecodeError", at |-> "json.loads", cause |-> raw]]
                    /\ pc' = [pc EXCEPT ![r] = OnDecodeFailure]
                    /\ UNCHANGED topic
               ELSE IF ~json_loads(raw).dict
               THEN /\ err' = [err EXCEPT ![r] =
                                  [type |-> "TypeError", at |-> "topic['title']", cause |-> raw]]
                    /\ pc' = [pc EXCEPT ![r] = "failed"]
                    /\ UNCHANGED topic
               ELSE /\ topic' = [topic EXCEPT ![r] = json_loads(raw).value]
                    /\ pc' = [pc EXCEPT ![r] = "content"]
                    /\ UNCHANGED err
    /\ UNCHANGED <<items, posts, content, number, today, baseSha, calls, hostVars,
                   numVars, revVars>>

\* main, step 3: content = generate_post_content(topic, posts, client)
GeneratePostContent(r) ==
    /\ pc[r] = "content"
    /\ inferCalls' = [inferCalls EXCEPT ![r] = @ + 1]
    /\ \/ InferenceFails(r) /\ UNCHANGED content
       \/ /\ \E resp \in ContentResponses : content' = [content EXCEPT ![r] = Strip(resp)]
          /\ pc' = [pc EXCEPT ![r] = "publish"]
          /\ UNCHANGED err
    /\ UNCHANGED <<items, posts, topicResp, topic, number, today, baseSha, calls,
                   hostVars, numVars, revVars>>

\* A hosting call of create_pull_request that raises: the run ends there.
HostingFails(r, call, cause) ==
    /\ calls' = [calls EXCEPT ![r] = Append(@, call)]
    /\ err' = [err EXCEPT ![r] = GithubError(call.op, cause)]
    /\ pc' = [pc EXCEPT ![r] = "failed"]

\* main, step 4: number = get_next_number(posts); create_pull_request up to
\* base_sha = repo.get_branch(MAIN_BRANCH).commit.sha
GetBranch(r) ==
    /\ pc[r] = "publish"
    /\ number' = [number EXCEPT ![r] = get_next_number(posts[r])]
    /\ \E d \in Dates : today' = [today EXCEPT ![r] = d]
    /\ LET call == [NoCall EXCEPT !.op = "get_branch", !.branch = MAIN_BRANCH]
       IN  \/ /\ baseSha' = [baseSha EXCEPT ![r] = MainSha]
              /\ calls' = [calls EXCEPT ![r] = Append(@, call)]
              /\ pc' = [pc EXCEPT ![r] = "ref"]
              /\ UNCHANGED err
           \/ /\ HostingFails(r, call, "api")
              /\ UNCHANGED baseSha
    /\ UNCHANGED <<items, posts, topicResp, topic, content, inferCalls, hostVars,
                   numVars, revVars>>

\* repo.create_git_ref(ref=f"refs/heads/{branch}", sha=base_sha); the host refuses
\* a reference that already exists
CreateGitRef(r) ==
    LET branch == BranchName(today[r], topic[r].slug)
        call == [NoCall EXCEPT !.op = "create_git_ref", !.ref = RefName(branch),
                               !.sha = baseSha[r]]
    IN  /\ pc[r] = "ref"
        /\ \/ /\ branch \notin BranchNames
              /\ branches' = branches \cup {[name |-> branch, listing |-> commits[baseSha[r]],
                                             by |-> r]}
              /\ calls' = [calls EXCEPT ![r] = Append(@, call)]
              /\ pc' = [pc EXCEPT ![r] = "file"]
              /\ UNCHANGED err
           \/ /\ branch \in BranchNames
              /\ HostingFails(r, call, "exists")
              /\ UNCHANGED branches
           \/ /\ HostingFails(r, call, "api")
              /\ UNCHANGED branches
        /\ UNCHANGED <<items, posts, topicResp, topic, content, number, today, baseSha,
                       inferCalls, commits, files, pulls, merges, numVars, revVars>>

\* a variant that deletes the new branch when the file cannot be created
CreateFile_Rollback(r) ==
    LET dirname == DirName(number[r], topic[r].slug)
        branch == BranchName(today[r], topic[r].slug)
        call == [NoCall EXCEPT !.op = "create_file", !.path = FilePath(dirname),
                               !.content = content[r], !.branch = branch]
    IN  /\ pc[r] = "file"
        /\ \/ /\ ~PathExists(BranchOf(branch).listing, dirname)
              /\ files' = files \cup {[branch |-> branch, dirname |-> dirname,
                                       path |-> FilePath(dirname), content |-> content[r],
                                       by |-> r]}
              /\ branches' = (branches \ {BranchOf(branch)}) \cup
                    {[BranchOf(branch) EXCEPT
                        !.listing = WithPost(@, dirname, topic[r].title)]}
              /\ calls' = [calls EXCEPT ![r] = Append(@, call)]
              /\ pc' = [pc EXCEPT ![r] = "pull"]
              /\ UNCHANGED err
           \/ /\ PathExists(BranchOf(branch).listing, dirname)
              /\ HostingFails(r, call, "exists")
              /\ branches' = branches \ {BranchOf(branch)}
              /\ UNCHANGED files
           \/ /\ HostingFails(r, call, "api")
              /\ branches' = branches \ {BranchOf(branch)}
              /\ UNCHANGED files
        /\ UNCHANGED <<items, posts, topicResp, topic, content, number, today, baseSha,
                       inferCalls, commits, pulls, merges, numVars, revVars>>

\* repo.create_file(path=file_path, message=..., content=content, branch=branch); the
\* host refuses a path that already exists on the branch
CreateFile(r) ==
    LET dirname == DirName(number[r], topic[r].slug)
        branch == BranchName(today[r], topic[r].slug)
        call == [NoCall EXCEPT !.op = "create_file", !.path = FilePath(dirname),
                               !.content = content[r], !.branch = branch]
    IN  /\ pc[r] = "file"
        /\ \/ /\ ~PathExists(BranchOf(branch).listing, dirname)
              /\ files' = files \cup {[branch |-> branch, dirname |-> dirname,
                                       path |-> FilePath(dirname), content |-> content[r],
                                       by |-> r]}
              /\ branches' = (branches \ {BranchOf(branch)}) \cup
                    {[BranchOf(branch) EXCEPT
                        !.listing = WithPost(@, dirname, topic[r].title)]}
              /\ calls' = [calls EXCEPT ![r] = Append(@, call)]
              /\ pc' = [pc EXCEPT ![r] = "pull"]
              /\ UNCHANGED err
           \/ /\ PathExists(BranchOf(branch).listing, dirname)
              /\ HostingFails(r, call, "exists")
              /\ UNCHANGED <<files, branches>>
           \/ /\ HostingFails(r, call, "api")
              /\ UNCHANGED <<files, branches>>
        /\ UNCHANGED <<items, posts, topicResp, topic, content, number, today, baseSha,
                       inferCalls, commits, pulls, merges, numVars, revVars>>

\* pr = repo.create_pull(base=MAIN_BRANCH, head=branch, title=..., body=..., draft=False)
CreatePull(r) ==
    LET branch == BranchName(today[r], topic[r].slug)
        call == [NoCall EXCEPT !.op = "create_pull", !.base = MAIN_BRANCH, !.head = branch]
    IN  /\ pc[r] = "pull"
        /\ \/ /\ pulls' = Append(pulls, [base |-> MAIN_BRANCH, head |-> branch,
                                         title |-> "[Blog Agent] " \o topic[r].title,
                                         state |-> "open", by |-> r])
              /\ calls' = [calls EXCEPT ![r] = Append(@, call)]
              /\ pc' = [pc EXCEPT ![r] = "done"]
              /\ UNCHANGED err
           \/ /\ HostingFails(r, call, "api")
              /\ UNCHANGED pulls
        /\ UNCHANGED <<items, posts, topicResp, topic, content, number, today, baseSha,
                       inferCalls, commits, branches, files, merges, numVars, revVars>>

\* The maintainer merges an open pull request: its post reaches the main branch.
MergePull(i) ==
    /\ merges < MaxMerges
    /\ pulls[i].state = "open"
    /\ LET f == CHOOSE f \in files : f.branch = pulls[i].head
           it == CHOOSE it \in BranchOf(pulls[i].head).listing.items : it.name = f.dirname
       IN  commits' = Append(commits, WithPost(MainListing, f.dirname, it.title))
    /\ pulls' = [pulls EXCEPT ![i].state = "merged"]
    /\ merges' = merges + 1
    /\ UNCHANGED <<branches, files, runVars, numVars, revVars>>

NextGen ==
    \/ \E r \in Runs :
        \/ GetExistingPosts(r)
        \/ ChooseNextTopic(r)
        \/ GeneratePostContent(r)
        \/ GetBranch(r)
        \/ CreateGitRef(r)
        \/ CreateFile(r)
        \/ CreatePull(r)
    \/ \E i \in DOMAIN pulls : MergePull(i)

SpecGen == InitGen /\ [][NextGen]_vars

----------------------------------------------------------------------------
\* pr_reviewer.py

\* os.environ.get gives None or a string: an optional, <<>> or <<text>>.
Unset == <<>>

EnvStr(v) == <<v>>

\* Values of the CONTENT_MAX_TOKENS environment variable.
EnvValues == {Unset, EnvStr(""), EnvStr("abc"), EnvStr("0"), EnvStr("100"), EnvStr(" 8192 "),
              EnvStr("20000")}

\* int(v): TypeError on None, ValueError on text that is no integer literal
PyInt(v) ==
    IF v = Unset THEN [ok |-> FALSE, exc |-> "TypeError", value |-> 0]
    ELSE LET s == Strip(v[1])
             signed == StartsWith(s, "-") \/ StartsWith(s, "+")
             body == IF signed THEN Drop(s, 1) ELSE s
         IN  IF ~AllDigits(body) THEN [ok |-> FALSE, exc |-> "ValueError", value |-> 0]
             ELSE [ok |-> TRUE, exc |-> "",
                   value |-> IF StartsWith(s, "-") THEN 0 - DecimalValue(body, 0)
                             ELSE DecimalValue(body, 0)]

\* a variant that forgets the posts root
IsPostFile_AnyReadme(name) == EndsWith(name, "README.md")

\* f.filename.startswith("posts/") and f.filename.endswith("README.md")
IsPostFile(name) == StartsWith(name, "posts/") /\ EndsWith(name, "README.md")

\* get_post_content's loop: the first matching file name, "" when none matches
RECURSIVE FirstPostFile(_)
FirstPostFile(fs) ==
    IF Len(fs) = 0 THEN ""
    ELSE IF IsPostFile(Head(fs)) THEN Head(fs)
    ELSE FirstPostFile(Tail(fs))

\* post_review_comment's template (ASCII letters for the accented ones, the apostrophe
\* for the backquote)
CommentBody(filepath, review) ==
    "## Revisao Automatica do Post\n\n**Arquivo:** '" \o filepath \o "'\n\n---\n\n"
        \o review \o "\n\n---\n*Revisao gerada automaticamente.*\n"

ChangedFileNames == {"posts/0001-intro/README.md", "posts/0002-loops/README.md",
                     "README.md", "posts/0001-intro/cover.png", "scripts/blog_agent.py"}

FileLists == UNION {[1..n -> ChangedFileNames] : n \in 0..MaxFiles}

\* Lengths, in characters, of the post at the pull request's head commit.
ContentLengths == {0, 1, DefaultMaxTokens, DefaultMaxTokens + 1, SliceLimit, SliceLimit + 1}

ReviewResponses == {"  Precisao tecnica: ok.\nNota: 8\n", "Nota: 3", " "}

InitRev ==
    /\ envMax \in EnvValues
    /\ prFiles \in FileLists
    /\ maxTokens = 0 /\ rpc = "init" /\ rpath = "" /\ rcontent = 0 /\ rprompt = 0
    /\ rreview = "" /\ rcomments = <<>> /\ rinfer = 0 /\ rfetches = <<>> /\ rerr = ""
    /\ NumIdle
    /\ GenIdle

\* Module level: try: CONTENT_MAX_TOKENS = int(os.environ.get(...)) or 8192
\*               except ValueError: CONTENT_MAX_TOKENS = 8192
LoadConfig ==
    /\ rpc = "init"
    /\ LET n == PyInt(envMax)
       IN  IF n.ok
           THEN /\ maxTokens' = (IF n.value # 0 THEN n.value ELSE DefaultMaxTokens)
                /\ rpc' = "main"
                /\ UNCHANGED rerr
           ELSE IF n.exc = "ValueError"
           THEN /\ maxTokens' = DefaultMaxTokens
                /\ rpc' = "main"
                /\ UNCHANGED rerr
           ELSE /\ rerr' = n.exc
                /\ rpc' = "crashed"
                /\ UNCHANGED maxTokens
    /\ UNCHANGED <<envMax, prFiles, rpath, rcontent, rprompt, rreview, rcomments, rinfer,
                   rfetches, numVars, hostVars, runVars>>

\* A collaborator call of main that raises: the process ends with the exception.
ReviewerFails(exc) == rerr' = exc /\ rpc' = "failed"

\* main, step 1: filepath, content = get_post_content(repo, pr); if not content: return
ReadPost ==
    /\ rpc = "main"
    /\ LET name == FirstPostFile(prFiles)
       IN  IF name = ""
           THEN /\ rpc' = "aborted"
                /\ UNCHANGED <<rpath, rcontent, rfetches, rerr>>
           ELSE \/ \E len \in ContentLengths :
                      /\ rpath' = name
                      /\ rcontent' = len
                      /\ rfetches' = Append(rfetches, [path |-> name, ref |-> "pr.head.sha"])
                      /\ rpc' = (IF len = 0 THEN "aborted" ELSE "review")
                      /\ UNCHANGED rerr
                \/ /\ ReviewerFails("GithubException")
                   /\ rfetches' = Append(rfetches, [path |-> name, ref |-> "pr.head.sha"])
                   /\ UNCHANGED <<rpath, rcontent>>
    /\ UNCHANGED <<envMax, maxTokens, prFiles, rprompt, rreview, rcomments, rinfer,
                   numVars, hostVars, runVars>>

\* main, step 2: client.chat.completions.create(... content[:12000] ...);
\* review = resp.choices[0].message.content.strip()
RequestReview ==
    /\ rpc = "review"
    /\ rinfer' = rinfer + 1
    /\ rprompt' = Min(rcontent, SliceLimit)
    /\ \/ \E resp \in ReviewResponses :
            /\ rreview' = Strip(resp)
            /\ rpc' = "comment"
            /\ UNCHANGED rerr
       \/ /\ ReviewerFails("InferenceError")
          /\ UNCHANGED rreview
    /\ UNCHANGED <<envMax, maxTokens, prFiles, rpath, rcontent, rcomments, rfetches,
                   numVars, hostVars, runVars>>

\* main, step 3: post_review_comment(pr, filepath, review)
PostReviewComment ==
    /\ rpc = "comment"
    /\ \/ /\ rcomments' = Append(rcomments, CommentBody(rpath, rreview))
          /\ rpc' = "done"
          /\ UNCHANGED rerr
       \/ /\ ReviewerFails("GithubException")
          /\ UNCHANGED rcomments
    /\ UNCHANGED <<envMax, maxTokens, prFiles, rpath, rcontent, rprompt, rreview, rinfer,
                   rfetches, numVars, hostVars, runVars>>

NextRev == LoadConfig \/ ReadPost \/ RequestReview \/ PostReviewComment

SpecRev == InitRev /\ [][NextRev]_vars

----------------------------------------------------------------------------
\* Properties of the generator (SpecGen).

BranchBy(r) == {b \in branches : b.by = r}

FilesBy(r) == {f \in files : f.by = r}

PullsBy(r) == {i \in DOMAIN pulls : pulls[i].by = r}

Ops(r) == [i \in DOMAIN calls[r] |-> calls[r][i].op]

PublicationOps == <<"get_branch", "create_git_ref", "create_file", "create_pull">>

\* The path the publication step is to write, spelled out digit by digit.
ExpectedPath(n, slug) ==
    "posts/" \o (IF n < 10 THEN "000" ELSE IF n < 100 THEN "00" ELSE IF n < 1000 THEN "0" ELSE "")
        \o ToString(n) \o "-" \o slug \o "/README.md"

ExpectedBranch(date, slug) == "agent/post-" \o date \o "-" \o slug

C4_NoRollbackNoRetry ==
    \A r \in Runs :
        /\ \A i \in DOMAIN calls[r] : i <= 4 /\ calls[r][i].op = PublicationOps[i]
        /\ err[r].type = "GithubException" =>
            /\ pc[r] = "failed"
            /\ calls[r] # <<>>
            /\ calls[r][Len(calls[r])].op = err[r].at
            /\ PullsBy(r) = {}
            /\ err[r].at = "get_branch" => BranchBy(r) = {} /\ FilesBy(r) = {}
            /\ err[r].at = "create_git_ref" => BranchBy(r) = {} /\ FilesBy(r) = {}
            /\ err[r].at = "create_file" =>
                /\ \E b \in BranchBy(r) : b.name = ExpectedBranch(today[r], topic[r].slug)
                /\ FilesBy(r) = {}
            /\ err[r].at = "create_pull" =>
                /\ \E b \in BranchBy(r) : b.name = ExpectedBranch(today[r], topic[r].slug)
                /\ \E f \in FilesBy(r) : f.path = ExpectedPath(number[r], topic[r].slug)

C4_Witness ==
    \E r \in Runs :
        /\ err[r] = GithubError("create_file", "api")
        /\ BranchBy(r) # {}
        /\ \E q \in Runs \ {r} : pc[q] = "done"

\* The replies that are no JSON document once surrounding white space and code-fence
\* markers are removed.
NonJsonReplies ==
    { "Here is the topic:\n" \o Fence \o "json\n" \o JsonText("intro") \o "\n" \o Fence,
      "Sorry, I cannot suggest a topic.",
      Fence \o "json\n" \o Fence }

\* C5: when the reply to the topic request is not valid JSON after the code-fence
\* markers are stripped, the run has stopped with a decode failure, has made exactly
\* one inference call, no hosting call of the publication step, and has created no
\* branch, file or pull request; a decode failure happens for such replies only.
C5_DecodeFailureStops ==
    \A r \in Runs :
        /\ (inferCalls[r] >= 1 /\ topicResp[r] \in NonJsonReplies) =>
            /\ pc[r] = "failed"
            /\ err[r].type = "JSONDecodeError"
            /\ inferCalls[r] = 1
            /\ content[r] = ""
            /\ calls[r] = <<>>
            /\ BranchBy(r) = {} /\ FilesBy(r) = {} /\ PullsBy(r) = {}
        /\ err[r].type = "JSONDecodeError" => topicResp[r] \in NonJsonReplies

C5_Witness ==
    \E r \in Runs :
        /\ err[r].type = "JSONDecodeError"
        /\ StartsWith(topicResp[r], "Here is the topic")
        /\ \E q \in Runs \ {r} : pc[q] = "done"

\* The first four characters of the directory of a created file: its sequence number.
SeqPrefix(f) == SubSeq(f.dirname, 1, 4)

\* C9: nothing enforces at-most-once across runs. Two runs that read the same
\* listing of posts and both finish have both opened a pull request, for post
\* directories with the same sequence number, and they differ in slug or date; a
\* branch creation is refused as a collision only when another run with the same
\* slug and the same date has created its branch, and of two runs with the same
\* slug and date at most one holds a branch: once both have asked for it, one of
\* the two branch creations has failed.
C9_NoAtMostOnce ==
    \A r \in Runs : \A q \in Runs \ {r} :
        /\ (pc[r] = "done" /\ pc[q] = "done" /\ items[r] = items[q]) =>
            /\ number[r] = number[q]
            /\ \E f \in FilesBy(r) : \E g \in FilesBy(q) : SeqPrefix(f) = SeqPrefix(g)
            /\ PullsBy(r) # {} /\ PullsBy(q) # {}
            /\ topic[r].slug # topic[q].slug \/ today[r] # today[q]
        /\ err[r] = GithubError("create_git_ref", "exists") =>
            \E p \in Runs \ {r} :
                /\ topic[p].slug = topic[r].slug /\ today[p] = today[r]
                /\ BranchBy(p) # {}
        /\ (topic[r].slug = topic[q].slug /\ today[r] = today[q] /\ today[r] # "") =>
            /\ ~(BranchBy(r) # {} /\ BranchBy(q) # {})
            /\ (Len(calls[r]) >= 2 /\ Len(calls[q]) >= 2) =>
                    err[r].at = "create_git_ref" \/ err[q].at = "create_git_ref"

C9_Witness ==
    \E r \in Runs : \E q \in Runs \ {r} :
        /\ pc[r] = "done" /\ pc[q] = "done"
        /\ topic[r].slug # topic[q].slug
        /\ \E i \in PullsBy(r) : \E j \in PullsBy(q) :
            pulls[i].state = "open" /\ pulls[j].state = "open"
        /\ \E f \in FilesBy(r) : \E g \in FilesBy(q) :
            SeqPrefix(f) = SeqPrefix(g) /\ f.dirname # g.dirname

\* The leading integers of the names of the subdirectories in a listing.
DirNumbers(listing) ==
    {DecimalValue(LeadingDigits(it.name), 0) :
        it \in {x \in listing.items : x.type = "dir" /\ LeadingDigits(x.name) # ""}}

\* C10: the sequence number a run uses is greater than the leading number of every
\* subdirectory of the posts root it listed, those without README.md included.
C10_NumberAboveEveryDirectory ==
    \A r \in Runs : number[r] # 0 => \A k \in DirNumbers(items[r]) : number[r] > k

----------------------------------------------------------------------------
\* Properties of get_next_number (SpecNum).

\* The integers that start a directory name of the list: a maximal run of digits at
\* the start of the name, read in base ten.
LeadingIntegers(ps) ==
    {DecimalValue(SubSeq(ps[i].dirname, 1, n), 0) :
        <<i, n>> \in {x \in (DOMAIN ps) \X (1..12) :
            /\ x[2] <= Len(ps[x[1]].dirname)
            /\ AllDigits(SubSeq(ps[x[1]].dirname, 1, x[2]))
            /\ (x[2] = Len(ps[x[1]].dirname)
                \/ ~IsDigit(SubSeq(ps[x[1]].dirname, x[2] + 1, x[2] + 1)))}}

Reorderings(ps) == {[i \in DOMAIN ps |-> ps[f[i]]] : f \in Permutations(DOMAIN ps)}

\* C6: get_next_number returns the largest leading integer of the directory names
\* plus one, and 1 when the list is empty or no name starts with a digit; the result
\* is at least 1, greater than every leading integer, and the same for every order
\* of the list.
C6_NextNumber ==
    numResult # 0 =>
        LET S == LeadingIntegers(numPosts)
        IN  /\ numResult >= 1
            /\ S = {} => numResult = 1
            /\ S # {} => numResult - 1 \in S
            /\ \A k \in S : numResult > k
            /\ \A qs \in Reorderings(numPosts) : get_next_number(qs) = numResult

C6_Witness ==
    /\ numResult = 11
    /\ numPosts = <<PostOf("0010-macros"), PostOf("drafts"), PostOf("0003-traits")>>

----------------------------------------------------------------------------
\* Properties of the reviewer (SpecRev).

UnderPostsRoot(name) == Len(name) >= 6 /\ SubSeq(name, 1, 6) = "posts/"

IsDocument(name) == Len(name) >= 9 /\ SubSeq(name, Len(name) - 8, Len(name)) = "README.md"

Matching == {i \in DOMAIN prFiles : UnderPostsRoot(prFiles[i]) /\ IsDocument(prFiles[i])}

RECURSIVE Contains(_, _)
Contains(s, sub) ==
    IF Len(s) < Len(sub) THEN FALSE
    ELSE SubSeq(s, 1, Len(sub)) = sub \/ Contains(Tail(s), sub)

\* C2: for a pull request with no changed file under the posts root, the reviewer
\* makes no inference call, posts no comment, and main returns without an exception.
C2_NothingToReview ==
    (\A i \in DOMAIN prFiles : ~UnderPostsRoot(prFiles[i])) =>
        /\ rinfer = 0
        /\ rcomments = <<>>
        /\ rfetches = <<>>
        /\ rpc \in {"init", "crashed", "main", "aborted"}
        /\ rpc \in {"main", "aborted"} => rerr = ""

C2_Witness ==
    /\ rpc = "aborted"
    /\ prFiles = <<"README.md", "scripts/blog_agent.py">>

\* C3: when some changed file is under the posts root and ends with README.md, a run
\* whose collaborator calls all succeed ends having fetched the first such file at
\* the head commit, made exactly one inference call and posted exactly one comment
\* that embeds the file's path and the trimmed reply; it aborts only when no changed
\* file matches.
C3_ReviewsFirstMatch ==
    (Matching # {} /\ rpc \in {"aborted", "done"}) =>
        LET first == prFiles[CHOOSE i \in Matching : \A j \in Matching : i <= j]
        IN  /\ rpc = "done"
            /\ rpath = first
            /\ rfetches = <<[path |-> first, ref |-> "pr.head.sha"]>>
            /\ rinfer = 1
            /\ Len(rcomments) = 1
            /\ Contains(rcomments[1], first)
            /\ Contains(rcomments[1], rreview)

\* The budget the configuration is to yield for each value of CONTENT_MAX_TOKENS.
ExpectedBudget ==
    CASE envMax = Unset -> 8192
      [] envMax = EnvStr("") -> 8192
      [] envMax = EnvStr("abc") -> 8192
      [] envMax = EnvStr("0") -> 0
      [] envMax = EnvStr("100") -> 100
      [] envMax = EnvStr(" 8192 ") -> 8192
      [] envMax = EnvStr("20000") -> 20000

\* C7: the start-up configuration of the content budget never fails: a missing or
\* non-numeric CONTENT_MAX_TOKENS yields 8192 and the reviewer goes on, a number
\* yields that number.
C7_ConfigNeverFails ==
    rpc # "init" => rpc # "crashed" /\ rerr # "TypeError" /\ maxTokens = ExpectedBudget

\* C8: the post text embedded in the review prompt is the prefix of the fetched
\* content of length min(len(content), CONTENT_MAX_TOKENS).
C8_PromptWithinBudget ==
    rinfer > 0 => rprompt = Min(rcontent, maxTokens)

====
